---- MODULE Spec2Model ----
(***************************************************************************)
(* The offline caching engine of the site's service worker                 *)
(* (src/src/static/sw.js): the install / activate lifecycle, the fetch     *)
(* listener's dispatch and the three caching strategies, over the          *)
(* platform's CacheStorage (an insertion-ordered list of named stores).    *)
(* Every await of the handlers is a step boundary, so that requests in     *)
(* flight interleave with each other and with the lifecycle.               *)
(***************************************************************************)
EXTENDS Integers, Sequences, FiniteSets, TLC

(* ------------------------------ bounds -------------------------------- *)

\* Number of fetch events that can be in flight at the same time.
MaxReq == 1
\* Number of deployments of new site content after the first (versions 0..MaxVer).
MaxVer == 1

(* ------------------------- program constants -------------------------- *)

CACHE_NAME == "terminal-portfolio-v1"
STATIC_CACHE_NAME == "terminal-static-v1"
RUNTIME_CACHE_NAME == "terminal-runtime-v1"

STATIC_ASSETS ==
  << "/", "/about/", "/projects/", "/resume/", "/contact/", "/tutorials/",
     "/books/", "/quotes/", "/css/main.css", "/js/bundle.js", "/manifest.json",
     "/icons/icon-192x192.png", "/icons/icon-512x512.png" >>

\* The origin the worker is served from (the host of the offline page's curl line).
SiteHost == "utsavbalar.in"

(* ------------------------------- URLs --------------------------------- *)

\* A parsed URL, as new URL(request.url) gives it.
Url(protocol, host, pathname, search) ==
  [protocol |-> protocol, host |-> host, pathname |-> pathname, search |-> search]

\* A path resolved against the worker's origin: what addAll('/x') and
\* caches.match('/') turn a path into.
SiteUrl(pathname) == Url("https:", SiteHost, pathname, "")

RootUrl == SiteUrl("/")

\* The URLs of the precache list.
PrecacheUrls == { SiteUrl(STATIC_ASSETS[i]) : i \in 1..Len(STATIC_ASSETS) }

\* The extension a path ends with ("" when it ends with none of those the
\* runtime patterns name), for the paths of the model.
PathExtension(pathname) ==
  CASE pathname = "/css/main.css" -> "css"
    [] pathname = "/js/bundle.js" -> "js"
    [] pathname = "/icons/icon-192x192.png" -> "png"
    [] pathname = "/icons/icon-512x512.png" -> "png"
    [] pathname = "/images/photo.png" -> "png"
    [] pathname = "/js/extra.js" -> "js"
    [] OTHER -> ""

\* What the URL string ends with: the query when there is one, else the path.
UrlExtension(url) == IF url.search # "" THEN "" ELSE PathExtension(url.pathname)

\* RUNTIME_CACHE_PATTERNS, one test per pattern, on the whole URL string.
RuntimePatternMatches(i, url) ==
  CASE i = 1 -> url.protocol = "https:" /\ url.host = "fonts.googleapis.com"
    [] i = 2 -> url.protocol = "https:" /\ url.host = "fonts.gstatic.com"
    [] i = 3 -> UrlExtension(url) \in {"png", "jpg", "jpeg", "svg", "gif", "webp"}
    [] i = 4 -> UrlExtension(url) \in {"js", "css"}

RuntimePatternCount == 4

(* ------------------------------ requests ------------------------------ *)

Request(method, mode, url) == [method |-> method, mode |-> mode, url |-> url]

\* The requests the pages of the site issue in the model.
Requests ==
  { Request("GET", "navigate", RootUrl),
    Request("GET", "navigate", SiteUrl("/blog/post/")),
    Request("GET", "cors", RootUrl),
    Request("GET", "no-cors", SiteUrl("/images/photo.png")),
    Request("GET", "cors", SiteUrl("/api/data")),
    Request("POST", "cors", SiteUrl("/contact/")),
    Request("POST", "navigate", SiteUrl("/contact/")) }

\* isStaticAsset: the URL's path is one of the precache list.
isStaticAsset(request) ==
  \E i \in 1..Len(STATIC_ASSETS) : request.url.pathname = STATIC_ASSETS[i]

\* shouldCacheRuntime: some runtime pattern matches the URL.
shouldCacheRuntime(request) ==
  \E i \in 1..RuntimePatternCount : RuntimePatternMatches(i, request.url)

\* A test that skips the scheme of the browser's extensions and no other.
IsNotChromeExtension(protocol) == protocol # "chrome-extension:"

\* url.protocol.startsWith('http'), for the protocols of the model.
IsHttpProtocol(protocol) == protocol \in {"http:", "https:"}

\* A listener that tries the runtime patterns before the precache list.
ClassifyRuntimeFirst(request) ==
  IF request.method # "GET" THEN "bypass"
  ELSE IF ~IsHttpProtocol(request.url.protocol) THEN "bypass"
  ELSE IF request.mode = "navigate" THEN "navigation"
  ELSE IF shouldCacheRuntime(request) THEN "runtime"
  ELSE IF isStaticAsset(request) THEN "static"
  ELSE "default"

\* A listener that looks at the mode before it looks at the method.
ClassifyModeFirst(request) ==
  IF request.mode = "navigate" THEN "navigation"
  ELSE IF request.method # "GET" THEN "bypass"
  ELSE IF ~IsHttpProtocol(request.url.protocol) THEN "bypass"
  ELSE IF isStaticAsset(request) THEN "static"
  ELSE IF shouldCacheRuntime(request) THEN "runtime"
  ELSE "default"

\* The branch of the fetch listener a request takes.
Classify(request) ==
  IF request.method # "GET" THEN "bypass"
  ELSE IF ~IsHttpProtocol(request.url.protocol) THEN "bypass"
  ELSE IF request.mode = "navigate" THEN "navigation"
  ELSE IF isStaticAsset(request) THEN "static"
  ELSE IF shouldCacheRuntime(request) THEN "runtime"
  ELSE "default"

(* ------------------------------ responses ----------------------------- *)

NoUrl == Url("", "", "", "")

\* The absence of a response (a cache miss, nothing fetched or returned yet).
NoResponse ==
  [kind |-> "none", status |-> 0, contentType |-> "", url |-> NoUrl, ver |-> 0]

\* What the network answers for a URL: a status and, with a success, the
\* content of that deployment of the site.
NetworkResponse(url, status, ver) ==
  [kind |-> "network", status |-> status, contentType |-> "origin",
   url |-> url, ver |-> IF status = 200 THEN ver ELSE 0]

\* An offline document sent as an error (503) instead of a success.
OfflineResponse503 ==
  [kind |-> "offline", status |-> 503, contentType |-> "text/html",
   url |-> NoUrl, ver |-> 0]

\* The document the navigation handler synthesizes as the last resort.
OfflineResponse ==
  [kind |-> "offline", status |-> 200, contentType |-> "text/html",
   url |-> NoUrl, ver |-> 0]

\* The statuses the network answers with: a success, a redirect and an error.
Statuses == {200, 301, 404}

\* response.ok
Ok(response) == response.status >= 200 /\ response.status <= 299

(* ---------------------------- CacheStorage ---------------------------- *)

\* A store: a name and its entries, a function from the URLs it holds to responses.
Store(name, entries) == [name |-> name, entries |-> entries]

NoEntries == [u \in {} |-> NoResponse]

StoreNames(cs) == { cs[i].name : i \in 1..Len(cs) }

\* caches.keys(): the names, in insertion order.
CacheKeys(cs) == [i \in 1..Len(cs) |-> cs[i].name]

\* caches.open(name): the store is created, last, when it does not exist.
CachesOpen(cs, name) ==
  IF name \in StoreNames(cs) THEN cs ELSE Append(cs, Store(name, NoEntries))

\* A put that makes room by dropping the store's other entries.
CachePutEvicts(cs, name, url, response) ==
  [i \in 1..Len(cs) |->
     IF cs[i].name = name
     THEN Store(name, [u \in {url} |-> response])
     ELSE cs[i]]

\* A put that leaves an entry the store already holds as it is.
CachePutKeepsExisting(cs, name, url, response) ==
  [i \in 1..Len(cs) |->
     IF cs[i].name = name /\ url \notin DOMAIN cs[i].entries
     THEN Store(name, [u \in (DOMAIN cs[i].entries) \cup {url} |->
                          IF u = url THEN response ELSE cs[i].entries[u]])
     ELSE cs[i]]

\* cache.put(request, response) on the store of that name.
CachePut(cs, name, url, response) ==
  [i \in 1..Len(cs) |->
     IF cs[i].name = name
     THEN Store(name, [u \in (DOMAIN cs[i].entries) \cup {url} |->
                          IF u = url THEN response ELSE cs[i].entries[u]])
     ELSE cs[i]]

\* caches.delete(name)
CachesDelete(cs, name) == SelectSeq(cs, LAMBDA s : s.name # name)

\* The entries of the store of a name (none when there is no such store).
EntriesOf(cs, name) ==
  IF name \in StoreNames(cs)
  THEN cs[CHOOSE i \in 1..Len(cs) : cs[i].name = name].entries
  ELSE NoEntries

\* caches.match(request): the stores are searched in insertion order and the
\* first entry for the URL is the answer.
RECURSIVE MatchFrom(_, _, _)
MatchFrom(cs, i, url) ==
  IF i > Len(cs) THEN NoResponse
  ELSE IF url \in DOMAIN cs[i].entries THEN cs[i].entries[url]
  ELSE MatchFrom(cs, i + 1, url)

CachesMatch(cs, url) == MatchFrom(cs, 1, url)

\* The entries the stores hold for a URL, whatever the store.
HeldEntries(cs, url) ==
  { cs[i].entries[url] : i \in { j \in 1..Len(cs) : url \in DOMAIN cs[j].entries } }

\* The URLs whose entry differs, in some store, between two CacheStorages.
ChangedUrls(before, after) ==
  LET names == StoreNames(before) \cup StoreNames(after)
      urls == UNION { (DOMAIN EntriesOf(before, n)) \cup (DOMAIN EntriesOf(after, n)) :
                        n \in names }
      held(cs, n, u) == IF u \in DOMAIN EntriesOf(cs, n) THEN EntriesOf(cs, n)[u]
                        ELSE NoResponse
  IN { u \in urls : \E n \in names : held(after, n, u) # held(before, n, u) }

\* The entry a store holds for a URL (no response when it holds none).
EntryIn(cs, name, url) ==
  IF url \in DOMAIN EntriesOf(cs, name) THEN EntriesOf(cs, name)[url]
  ELSE NoResponse

(* -------------------------------- state ------------------------------- *)

VARIABLES
  caches,     \* CacheStorage of the origin: the stores, in insertion order
  online,     \* whether the network answers
  siteVer,    \* the deployment of the site the network serves
  worker,     \* the worker's lifecycle: state, handler positions, promises
  tasks       \* the fetch events in flight, one per slot

vars == << caches, online, siteVer, worker, tasks >>

\* The slots of the fetch events in flight.
Slots == DOMAIN tasks

\* A slot no fetch event occupies. Besides the function whose promise the
\* listener gave to respondWith (handler), the handler's position and
\* locals, a task records what it observed: the number of caches.match calls
\* it made (lookups); the entries the stores held for the request's URL at
\* the first of them (heldExact), the static store's among these
\* (staticExact) and the runtime store's (runtimeExact), and the entries
\* held for '/' at the second (heldRoot); the
\* number of its steps that changed CacheStorage (writes); and, right after
\* its cache.put completed, the runtime store's entry for the URL (stored),
\* the static store's (storedStatic) and what caches.match finds for the URL
\* (visible); latest: no cache.put for the same URL has completed since the
\* task's own. storeError: a cache
\* operation of the task threw. rootAtStart: what caches.match('/') finds
\* when the event is dispatched; touched: the URLs whose entry, in some store,
\* a step of the task created, replaced or removed; staticChanged: a step
\* of the task changed the static store.
IdleTask ==
  [pc |-> "idle", req |-> Request("", "", NoUrl), responded |-> FALSE,
   handler |-> "none",
   detached |-> FALSE, fetches |-> 0, netError |-> FALSE,
   cached |-> NoResponse, net |-> NoResponse, result |-> NoResponse,
   outcome |-> "none", unhandled |-> FALSE, storeError |-> FALSE,
   lookups |-> 0, heldExact |-> {}, staticExact |-> NoResponse,
   runtimeExact |-> NoResponse, heldRoot |-> {},
   writes |-> 0, stored |-> NoResponse, storedStatic |-> NoResponse,
   visible |-> NoResponse, latest |-> FALSE,
   rootAtStart |-> NoResponse, touched |-> {}, staticChanged |-> FALSE]

\* A worker script that is not registered. Besides the lifecycle state and
\* the positions of the install and activate listeners, the worker records
\* the number of entries of the static store that differ once addAll has
\* settled from what they were before it (precacheChanged);
\* what the activate listener observed: the names caches.keys() gave it
\* (activateNames) and, of these, the names whose store is gone or holds
\* other entries once the deletions have settled (activateChanged); and the
\* last message event its message listener handled (message); the last
\* push and notificationclick events (push, click) and the notifications on
\* display (displayed).
NoMessage ==
  [handled |-> FALSE, data |-> [present |-> FALSE, type |-> ""], ports |-> 0,
   posted |-> << >>, skipCalled |-> FALSE, threw |-> FALSE,
   storesChanged |-> FALSE]

\* The last push event and the last notificationclick event the worker
\* handled, and what each did.
NoPush ==
  [handled |-> FALSE, payload |-> [present |-> FALSE, title |-> "", body |-> "",
                                   url |-> ""],
   shown |-> << >>, storesChanged |-> FALSE]

NoClick ==
  [handled |-> FALSE, action |-> "", data |-> "", closed |-> FALSE,
   opened |-> << >>]

NoWorker ==
  [state |-> "unregistered", installPc |-> "idle", installPromise |-> "none",
   precache |-> "none", precacheChanged |-> 0, skipWaiting |-> FALSE,
   activatePc |-> "idle",
   activateNames |-> << >>, activateChanged |-> {},
   activatePromise |-> "none", claimed |-> FALSE, message |-> NoMessage,
   push |-> NoPush, displayed |-> {}, click |-> NoClick]

\* Stores an earlier generation of the site, or another script of the
\* origin, left behind.
OldStaticStore ==
  Store("terminal-static-v0", [u \in {RootUrl} |-> NetworkResponse(RootUrl, 200, 0)])
OldRuntimeStore == Store("terminal-runtime-v0", NoEntries)
ForeignStore == Store("analytics-cache", NoEntries)

InitialCaches == { << >>, << OldStaticStore, OldRuntimeStore, ForeignStore >> }

Init ==
  /\ caches \in InitialCaches
  /\ online \in BOOLEAN
  /\ siteVer = 0
  /\ worker = NoWorker
  /\ tasks = [t \in 1..MaxReq |-> IdleTask]

(* ------------------------------ environment --------------------------- *)

\* The network goes away or comes back.
ToggleNetwork ==
  /\ online' = ~online
  /\ UNCHANGED << caches, siteVer, worker, tasks >>

\* New content is deployed to the site.
Deploy ==
  /\ siteVer < MaxVer
  /\ siteVer' = siteVer + 1
  /\ UNCHANGED << caches, online, worker, tasks >>

(* ------------------------------- install ------------------------------ *)

\* The page registers /sw.js; the install listener runs up to its first
\* await: caches.open(STATIC_CACHE_NAME).
Register ==
  /\ worker.state = "unregistered"
  /\ worker' = [NoWorker EXCEPT !.state = "installing", !.installPc = "addAll",
                                !.installPromise = "pending"]
  /\ caches' = CachesOpen(caches, STATIC_CACHE_NAME)
  /\ UNCHANGED << online, siteVer, tasks >>

\* A precache that leaves out the last asset of the list.
AddAllOffByOne(cs, name, failing, ver) ==
  IF failing # 0 THEN cs
  ELSE [i \in 1..Len(cs) |->
          IF cs[i].name = name
          THEN Store(name,
                 [u \in (DOMAIN cs[i].entries) \cup
                         { SiteUrl(STATIC_ASSETS[k]) : k \in 1..(Len(STATIC_ASSETS) - 1) } |->
                    IF u \in PrecacheUrls THEN NetworkResponse(u, 200, ver)
                    ELSE cs[i].entries[u]])
          ELSE cs[i]]

\* A precache that adds the assets one after the other and stops at the
\* first that fails.
AddAllOneByOne(cs, name, failing, ver) ==
  LET added == { SiteUrl(STATIC_ASSETS[k]) :
                   k \in { j \in 1..Len(STATIC_ASSETS) : failing = 0 \/ j < failing } }
  IN [i \in 1..Len(cs) |->
        IF cs[i].name = name
        THEN Store(name,
               [u \in (DOMAIN cs[i].entries) \cup added |->
                  IF u \in added THEN NetworkResponse(u, 200, ver)
                  ELSE cs[i].entries[u]])
        ELSE cs[i]]

\* cache.addAll(urls): every URL is fetched; only when every one of them
\* answered with an ok status are the entries written, all of them.
\* `failing` is the index of an asset whose fetch fails (0: none fails).
AddAll(cs, name, failing, ver) ==
  IF failing # 0 THEN cs
  ELSE [i \in 1..Len(cs) |->
          IF cs[i].name = name
          THEN Store(name,
                 [u \in (DOMAIN cs[i].entries) \cup PrecacheUrls |->
                    IF u \in PrecacheUrls THEN NetworkResponse(u, 200, ver)
                    ELSE cs[i].entries[u]])
          ELSE cs[i]]

\* A chain that calls skipWaiting whether the precache succeeded or not.
InstallChainSkipsAlways(w, failing) ==
  IF failing = 0
  THEN [w EXCEPT !.installPc = "done", !.precache = "stored",
                 !.skipWaiting = TRUE, !.installPromise = "fulfilled"]
  ELSE [w EXCEPT !.installPc = "done", !.precache = "failed",
                 !.skipWaiting = TRUE, !.installPromise = "fulfilled"]

\* How the promise chain handed to the install event's waitUntil settles:
\* .then(skipWaiting) after a precache that succeeded, .catch(log) after one
\* that failed; the catch returns normally.
InstallChain(w, failing) ==
  IF failing = 0
  THEN [w EXCEPT !.installPc = "done", !.precache = "stored",
                 !.skipWaiting = TRUE, !.installPromise = "fulfilled"]
  ELSE [w EXCEPT !.installPc = "done", !.precache = "failed",
                 !.installPromise = "fulfilled"]

\* addAll settled: CacheStorage went from `before` to `after`.
Precached(w, before, after) ==
  [w EXCEPT !.precacheChanged =
     Cardinality({ u \in (DOMAIN EntriesOf(before, STATIC_CACHE_NAME))
                          \cup (DOMAIN EntriesOf(after, STATIC_CACHE_NAME)) :
                     EntryIn(after, STATIC_CACHE_NAME, u)
                       # EntryIn(before, STATIC_CACHE_NAME, u) })]

\* addAll settles and the rest of the chain runs.
InstallAddAll ==
  /\ worker.state = "installing"
  /\ worker.installPc = "addAll"
  /\ \E failing \in 0..Len(STATIC_ASSETS) :
       /\ ~online => failing # 0
       /\ caches' = AddAll(caches, STATIC_CACHE_NAME, failing, siteVer)
       /\ worker' = Precached(InstallChain(worker, failing), caches, caches')
  /\ UNCHANGED << online, siteVer, tasks >>

\* The platform ends the install phase by the promise given to waitUntil:
\* fulfilled, the worker is installed; rejected, it is discarded.
InstallSettled ==
  /\ worker.state = "installing"
  /\ worker.installPromise \in {"fulfilled", "rejected"}
  /\ worker' = [worker EXCEPT !.state =
                  IF worker.installPromise = "fulfilled" THEN "installed"
                  ELSE "redundant"]
  /\ UNCHANGED << caches, online, siteVer, tasks >>

(* ------------------------------- activate ----------------------------- *)

\* cacheName.startsWith('terminal-'), for the store names of the model.
StartsWithTerminal(cacheName) ==
  cacheName \in {"terminal-static-v0", "terminal-runtime-v0", CACHE_NAME,
                 STATIC_CACHE_NAME, RUNTIME_CACHE_NAME}

\* A filter that does not spare the current names.
IsStaleAnyTerminal(cacheName) == StartsWithTerminal(cacheName)

\* A filter that spares every runtime store, whatever its version.
IsStaleSparesRuntime(cacheName) ==
  /\ StartsWithTerminal(cacheName)
  /\ cacheName \notin {STATIC_CACHE_NAME, RUNTIME_CACHE_NAME, "terminal-runtime-v0"}

\* The filter of the activate listener: the names it deletes.
IsStale(cacheName) ==
  /\ StartsWithTerminal(cacheName)
  /\ cacheName # STATIC_CACHE_NAME
  /\ cacheName # RUNTIME_CACHE_NAME

\* An activate listener that claims the clients before its clean-up has run.
ActivateKeysClaimsFirst ==
  /\ worker.state = "installed"
  /\ worker' = [worker EXCEPT !.state = "activating", !.activatePc = "delete",
                              !.activateNames = CacheKeys(caches),
                              !.activatePromise = "pending", !.claimed = TRUE]
  /\ UNCHANGED << caches, online, siteVer, tasks >>

\* The platform activates an installed worker; the activate listener runs up
\* to its first await: caches.keys().
ActivateKeys ==
  /\ worker.state = "installed"
  /\ worker' = [worker EXCEPT !.state = "activating", !.activatePc = "delete",
                              !.activateNames = CacheKeys(caches),
                              !.activatePromise = "pending"]
  /\ UNCHANGED << caches, online, siteVer, tasks >>

\* A clean-up that deletes only the first name that passes the filter.
DeleteStaleFirstOnly(cs, names, i) ==
  LET stale == { j \in i..Len(names) : IsStale(names[j]) }
  IN IF stale = {} THEN cs
     ELSE CachesDelete(cs, names[CHOOSE j \in stale : \A k \in stale : j <= k])

\* caches.delete of every name of a list that passes the filter.
RECURSIVE DeleteStale(_, _, _)
DeleteStale(cs, names, i) ==
  IF i > Len(names) THEN cs
  ELSE DeleteStale(IF IsStale(names[i]) THEN CachesDelete(cs, names[i]) ELSE cs,
                   names, i + 1)

\* The deletions settled: CacheStorage went from `before` to `after`.
Pruned(w, before, after) ==
  [w EXCEPT !.activateChanged =
     { w.activateNames[i] : i \in { j \in 1..Len(w.activateNames) :
         \/ w.activateNames[j] \notin StoreNames(after)
         \/ EntriesOf(after, w.activateNames[j])
              # EntriesOf(before, w.activateNames[j]) } }]

\* Promise.all of the deletions settles.
ActivateDelete ==
  /\ worker.state = "activating"
  /\ worker.activatePc = "delete"
  /\ caches' = DeleteStale(caches, worker.activateNames, 1)
  /\ worker' = Pruned([worker EXCEPT !.activatePc = "claim"], caches, caches')
  /\ UNCHANGED << online, siteVer, tasks >>

\* self.clients.claim() settles, and with it the promise given to waitUntil:
\* the worker is activated and receives the fetch events of the pages.
ActivateClaim ==
  /\ worker.state = "activating"
  /\ worker.activatePc = "claim"
  /\ worker' = [worker EXCEPT !.activatePc = "done", !.claimed = TRUE,
                              !.activatePromise = "fulfilled",
                              !.state = "activated"]
  /\ UNCHANGED << caches, online, siteVer, tasks >>

\* The registration is removed once no page uses the worker any more (the
\* stores stay); the next page load registers the script again.
Unregister ==
  /\ worker.state = "activated"
  /\ \A t \in Slots : tasks[t].pc \in {"idle", "done"}
  /\ worker' = NoWorker
  /\ tasks' = [t \in Slots |-> IdleTask]
  /\ UNCHANGED << caches, online, siteVer >>

(* ----------------------------- fetch listener ------------------------- *)

\* caches.match(request) settled on CacheStorage cs.
Looked(task, cs) ==
  [task EXCEPT !.lookups = 1,
               !.heldExact = HeldEntries(cs, task.req.url),
               !.staticExact = EntryIn(cs, STATIC_CACHE_NAME, task.req.url),
               !.runtimeExact = EntryIn(cs, RUNTIME_CACHE_NAME, task.req.url)]

\* caches.match('/') settled on CacheStorage cs.
LookedRoot(task, cs) ==
  [task EXCEPT !.lookups = 2, !.heldRoot = HeldEntries(cs, RootUrl)]

\* A listener that hands what no other branch takes to handleRuntimeAsset.
DispatchDefaultCached(request) ==
  LET category == Classify(request)
      started == [IdleTask EXCEPT !.req = request, !.responded = TRUE,
                                  !.outcome = "pending"]
  IN CASE category = "bypass" ->
            [IdleTask EXCEPT !.req = request, !.pc = "done"]
       [] category = "navigation" ->
            [started EXCEPT !.handler = "handleNavigationRequest",
                            !.pc = "navFetch", !.fetches = 1]
       [] category = "static" ->
            [started EXCEPT !.handler = "handleStaticAsset", !.pc = "staticMatch"]
       [] category \in {"runtime", "default"} ->
            [started EXCEPT !.handler = "handleRuntimeAsset", !.pc = "runtimeMatch"]

\* The fetch listener, up to the first await of the handler it picks.
Dispatch(request) ==
  LET category == Classify(request)
      started == [IdleTask EXCEPT !.req = request, !.responded = TRUE,
                                  !.outcome = "pending"]
  IN CASE category = "bypass" ->
            [IdleTask EXCEPT !.req = request, !.pc = "done"]
       [] category = "navigation" ->
            [started EXCEPT !.handler = "handleNavigationRequest",
                            !.pc = "navFetch", !.fetches = 1]
       [] category = "static" ->
            [started EXCEPT !.handler = "handleStaticAsset", !.pc = "staticMatch"]
       [] category = "runtime" ->
            [started EXCEPT !.handler = "handleRuntimeAsset", !.pc = "runtimeMatch"]
       [] category = "default" ->
            [started EXCEPT !.handler = "fetch", !.pc = "defaultFetch",
                            !.fetches = 1]

\* The event was dispatched on CacheStorage cs.
Dispatched(task, cs) ==
  [task EXCEPT !.rootAtStart = CachesMatch(cs, RootUrl)]

FetchEvent(t) ==
  /\ worker.state = "activated"
  /\ tasks[t].pc \in {"idle", "done"}
  /\ \E request \in Requests :
       tasks' = [tasks EXCEPT ![t] = Dispatched(Dispatch(request), caches)]
  /\ UNCHANGED << caches, online, siteVer, worker >>

(* ------------------------ handleNavigationRequest --------------------- *)

\* A handler that treats an error status like a failed fetch and goes to
\* the cache.
NavAfterFetchErrorFallsBack(task, networkResponse) ==
  IF Ok(networkResponse)
  THEN [task EXCEPT !.net = networkResponse, !.pc = "navOpen"]
  ELSE [task EXCEPT !.net = networkResponse, !.pc = "navMatch"]

\* After `await fetch(request)` resolved: an ok response goes on to be
\* cached, any other is returned as it is.
NavAfterFetch(task, networkResponse) ==
  IF Ok(networkResponse)
  THEN [task EXCEPT !.net = networkResponse, !.pc = "navOpen"]
  ELSE [task EXCEPT !.net = networkResponse, !.result = networkResponse,
                    !.outcome = "resolved", !.pc = "done"]

NavFetchResolved(t) ==
  /\ tasks[t].pc = "navFetch"
  /\ online
  /\ \E status \in Statuses :
       tasks' = [tasks EXCEPT ![t] =
                   NavAfterFetch(@, NetworkResponse(@.req.url, status, siteVer))]
  /\ UNCHANGED << caches, online, siteVer, worker >>

\* `await fetch(request)` rejected: the catch block starts with
\* caches.match(request).
NavFetchRejected(t) ==
  /\ tasks[t].pc = "navFetch"
  /\ ~online
  /\ tasks' = [tasks EXCEPT ![t] = [@ EXCEPT !.netError = TRUE, !.pc = "navMatch"]]
  /\ UNCHANGED << caches, online, siteVer, worker >>

\* caches.open settled: CacheStorage went from `before` to `after`.
Opened(task, before, after) ==
  [task EXCEPT !.writes = IF after # before THEN task.writes + 1 ELSE task.writes,
               !.touched = @ \cup ChangedUrls(before, after),
               !.staticChanged = (@ \/ EntriesOf(after, STATIC_CACHE_NAME)
                                         # EntriesOf(before, STATIC_CACHE_NAME))]

\* After `await caches.open(RUNTIME_CACHE_NAME)`: cache.put is started, not
\* awaited, and the network response is returned.
NavAfterOpen(task) ==
  [task EXCEPT !.result = task.net, !.outcome = "resolved", !.pc = "navPut"]

NavCacheOpened(t) ==
  /\ tasks[t].pc = "navOpen"
  /\ caches' = CachesOpen(caches, RUNTIME_CACHE_NAME)
  /\ tasks' = [tasks EXCEPT ![t] = Opened(NavAfterOpen(@), caches, caches')]
  /\ UNCHANGED << online, siteVer, worker >>

\* A put aimed at the name no store is opened under.
PutTargetUnopened == CACHE_NAME

\* A put aimed at the static store.
PutTargetStatic == STATIC_CACHE_NAME

\* A put that writes back the copy the cache already held.
PutValueStale(task) == IF task.detached THEN task.cached ELSE task.net

\* The store and the response a handler's cache.put writes.
PutTarget == RUNTIME_CACHE_NAME
PutValue(task) == task.net

\* The cache.put a handler started completes: CacheStorage went from `before`
\* to `after`.
AfterPut(task, before, after) ==
  [task EXCEPT !.pc = "done", !.latest = TRUE,
               !.touched = @ \cup ChangedUrls(before, after),
               !.staticChanged = (@ \/ EntriesOf(after, STATIC_CACHE_NAME)
                                         # EntriesOf(before, STATIC_CACHE_NAME)),
               !.writes = IF after # before THEN task.writes + 1 ELSE task.writes,
               !.stored = EntryIn(after, RUNTIME_CACHE_NAME, task.req.url),
               !.storedStatic = EntryIn(after, STATIC_CACHE_NAME, task.req.url),
               !.visible = CachesMatch(after, task.req.url)]

\* The cache.put of slot t completed: the puts of the other slots for the
\* same URL are no longer the latest.
WriteOrder(ts, t) ==
  [s \in DOMAIN ts |->
     IF s # t /\ ts[s].req.url = ts[t].req.url
     THEN [ts[s] EXCEPT !.latest = FALSE]
     ELSE ts[s]]

NavPutDone(t) ==
  /\ tasks[t].pc = "navPut"
  /\ caches' = CachePut(caches, PutTarget, tasks[t].req.url, PutValue(tasks[t]))
  /\ tasks' = WriteOrder([tasks EXCEPT ![t] = AfterPut(@, caches, caches')], t)
  /\ UNCHANGED << online, siteVer, worker >>

\* A catch block that goes to '/' without looking at the exact URL's entry.
NavAfterMatchSkipsExact(task, cachedResponse) == [task EXCEPT !.pc = "navRoot"]

\* After `await caches.match(request)` in the catch block.
NavAfterMatch(task, cachedResponse) ==
  IF cachedResponse # NoResponse
  THEN [task EXCEPT !.cached = cachedResponse, !.result = cachedResponse,
                    !.outcome = "resolved", !.pc = "done"]
  ELSE [task EXCEPT !.pc = "navRoot"]

NavMatched(t) ==
  /\ tasks[t].pc = "navMatch"
  /\ tasks' = [tasks EXCEPT ![t] =
                 Looked(NavAfterMatch(@, CachesMatch(caches, @.req.url)), caches)]
  /\ UNCHANGED << caches, online, siteVer, worker >>

\* A catch block that throws the network error again when '/' is not cached.
NavAfterFallbackThrows(task, fallbackResponse) ==
  IF fallbackResponse # NoResponse
  THEN [task EXCEPT !.cached = fallbackResponse, !.result = fallbackResponse,
                    !.outcome = "resolved", !.pc = "done"]
  ELSE [task EXCEPT !.outcome = "rejected", !.pc = "done"]

\* After `await caches.match('/')`: the cached root, else the offline document.
NavAfterFallback(task, fallbackResponse) ==
  IF fallbackResponse # NoResponse
  THEN [task EXCEPT !.cached = fallbackResponse, !.result = fallbackResponse,
                    !.outcome = "resolved", !.pc = "done"]
  ELSE [task EXCEPT !.result = OfflineResponse, !.outcome = "resolved",
                    !.pc = "done"]

NavFallback(t) ==
  /\ tasks[t].pc = "navRoot"
  /\ tasks' = [tasks EXCEPT ![t] =
                 LookedRoot(NavAfterFallback(@, CachesMatch(caches, RootUrl)), caches)]
  /\ UNCHANGED << caches, online, siteVer, worker >>

(* ---------------- handleStaticAsset, handleRuntimeAsset --------------- *)

\* A cache-first handler that returns the hit and starts no refetch.
StaticAfterMatchNoRefetch(task, cachedResponse) ==
  IF cachedResponse # NoResponse
  THEN [task EXCEPT !.cached = cachedResponse, !.result = cachedResponse,
                    !.outcome = "resolved", !.pc = "done"]
  ELSE [task EXCEPT !.fetches = 1, !.pc = "facFetch"]

\* handleStaticAsset after `await caches.match(request)`: on a hit
\* fetchAndCache is started and left alone and the cached response returned;
\* on a miss the handler returns what fetchAndCache returns.
StaticAfterMatch(task, cachedResponse) ==
  IF cachedResponse # NoResponse
  THEN [task EXCEPT !.cached = cachedResponse, !.fetches = 1, !.detached = TRUE,
                    !.result = cachedResponse, !.outcome = "resolved",
                    !.pc = "facFetch"]
  ELSE [task EXCEPT !.fetches = 1, !.pc = "facFetch"]

StaticMatched(t) ==
  /\ tasks[t].pc = "staticMatch"
  /\ tasks' = [tasks EXCEPT ![t] =
                 Looked(StaticAfterMatch(@, CachesMatch(caches, @.req.url)), caches)]
  /\ UNCHANGED << caches, online, siteVer, worker >>

\* A handler that awaits the network before it returns anything.
RuntimeAfterMatchAwaitsNetwork(task, cachedResponse) ==
  [task EXCEPT !.cached = cachedResponse, !.fetches = 1, !.pc = "facFetch"]

\* handleRuntimeAsset after `await caches.match(request)`: fetchAndCache is
\* started in every case; a cached response is returned at once, else the
\* handler returns what fetchAndCache returns.
RuntimeAfterMatch(task, cachedResponse) ==
  LET fetching == [task EXCEPT !.fetches = 1, !.pc = "facFetch"]
  IN IF cachedResponse # NoResponse
     THEN [fetching EXCEPT !.cached = cachedResponse, !.detached = TRUE,
                           !.result = cachedResponse, !.outcome = "resolved"]
     ELSE fetching

RuntimeMatched(t) ==
  /\ tasks[t].pc = "runtimeMatch"
  /\ tasks' = [tasks EXCEPT ![t] =
                 Looked(RuntimeAfterMatch(@, CachesMatch(caches, @.req.url)), caches)]
  /\ UNCHANGED << caches, online, siteVer, worker >>

(* ------------------------------ fetchAndCache ------------------------- *)

\* fetchAndCache returns: its caller's result, unless the caller has
\* already returned the cached response and left the promise alone.
FacReturn(task, response) ==
  IF task.detached THEN task
  ELSE [task EXCEPT !.result = response, !.outcome = "resolved"]

\* A fetchAndCache that caches whatever the network answered.
FacAfterFetchCachesAny(task, networkResponse) ==
  [task EXCEPT !.net = networkResponse, !.pc = "facOpen"]

\* After `await fetch(request)` resolved.
FacAfterFetch(task, networkResponse) ==
  IF Ok(networkResponse)
  THEN [task EXCEPT !.net = networkResponse, !.pc = "facOpen"]
  ELSE [FacReturn(task, networkResponse) EXCEPT !.net = networkResponse,
                                                 !.pc = "done"]

FacFetchResolved(t) ==
  /\ tasks[t].pc = "facFetch"
  /\ online
  /\ \E status \in Statuses :
       tasks' = [tasks EXCEPT ![t] =
                   FacAfterFetch(@, NetworkResponse(@.req.url, status, siteVer))]
  /\ UNCHANGED << caches, online, siteVer, worker >>

\* `await fetch(request)` rejected: the error is logged and thrown again. It
\* rejects the handler's promise, or, when the handler has returned the
\* cached response, a promise nobody handles.
FacAfterReject(task) ==
  IF task.detached
  THEN [task EXCEPT !.netError = TRUE, !.unhandled = TRUE, !.pc = "done"]
  ELSE [task EXCEPT !.netError = TRUE, !.outcome = "rejected", !.pc = "done"]

FacFetchRejected(t) ==
  /\ tasks[t].pc = "facFetch"
  /\ ~online
  /\ tasks' = [tasks EXCEPT ![t] = FacAfterReject(@)]
  /\ UNCHANGED << caches, online, siteVer, worker >>

\* After `await caches.open(RUNTIME_CACHE_NAME)`: cache.put is started, not
\* awaited, and the network response is returned.
FacAfterOpen(task) ==
  [FacReturn(task, task.net) EXCEPT !.pc = "facPut"]

FacCacheOpened(t) ==
  /\ tasks[t].pc = "facOpen"
  /\ caches' = CachesOpen(caches, RUNTIME_CACHE_NAME)
  /\ tasks' = [tasks EXCEPT ![t] = Opened(FacAfterOpen(@), caches, caches')]
  /\ UNCHANGED << online, siteVer, worker >>

FacPutDone(t) ==
  /\ tasks[t].pc = "facPut"
  /\ caches' = CachePut(caches, PutTarget, tasks[t].req.url, PutValue(tasks[t]))
  /\ tasks' = WriteOrder([tasks EXCEPT ![t] = AfterPut(@, caches, caches')], t)
  /\ UNCHANGED << online, siteVer, worker >>

(* ------------------------- default: fetch(request) -------------------- *)

\* `fetch(request)` handed to respondWith settles.
DefaultAfterFetch(task, networkResponse) ==
  [task EXCEPT !.net = networkResponse, !.result = networkResponse,
               !.outcome = "resolved", !.pc = "done"]

DefaultFetchResolved(t) ==
  /\ tasks[t].pc = "defaultFetch"
  /\ online
  /\ \E status \in Statuses :
       tasks' = [tasks EXCEPT ![t] =
                   DefaultAfterFetch(@, NetworkResponse(@.req.url, status, siteVer))]
  /\ UNCHANGED << caches, online, siteVer, worker >>

DefaultFetchRejected(t) ==
  /\ tasks[t].pc = "defaultFetch"
  /\ ~online
  /\ tasks' = [tasks EXCEPT ![t] = [@ EXCEPT !.netError = TRUE,
                                             !.outcome = "rejected", !.pc = "done"]]
  /\ UNCHANGED << caches, online, siteVer, worker >>

(* ---------------------------- message listener ----------------------- *)

\* event.data of a message: absent (undefined or null), or an object with
\* its type ("" when the object has no type).
MessageData(present, type) == [present |-> present, type |-> type]

\* The messages pages send in the model: the two of the protocol, one of
\* another type, an object without a type, and no data at all.
MessageDatas ==
  { MessageData(TRUE, "SKIP_WAITING"), MessageData(TRUE, "GET_VERSION"),
    MessageData(TRUE, "PING"), MessageData(TRUE, ""), MessageData(FALSE, "") }

\* The number of ports a message is sent with (event.ports.length).
MessagePorts == {0, 1}

\* A listener that heeds SKIP_WAITING only once the worker is activated.
OnMessageSkipWhenActivated(w, data, ports) ==
  LET msg == [NoMessage EXCEPT !.handled = TRUE, !.data = data, !.ports = ports]
  IN IF data.present /\ data.type = "SKIP_WAITING"
     THEN IF w.state = "activated"
          THEN [w EXCEPT !.skipWaiting = TRUE,
                         !.message = [msg EXCEPT !.skipCalled = TRUE]]
          ELSE [w EXCEPT !.message = msg]
     ELSE IF data.present /\ data.type = "GET_VERSION"
          THEN IF ports >= 1
               THEN [w EXCEPT !.message =
                       [msg EXCEPT !.posted = << [version |-> CACHE_NAME] >>]]
               ELSE [w EXCEPT !.message = [msg EXCEPT !.threw = TRUE]]
          ELSE [w EXCEPT !.message = msg]

\* A listener whose second branch is a plain else.
OnMessageElseReplies(w, data, ports) ==
  LET msg == [NoMessage EXCEPT !.handled = TRUE, !.data = data, !.ports = ports]
  IN IF data.present /\ data.type = "SKIP_WAITING"
     THEN [w EXCEPT !.skipWaiting = TRUE,
                    !.message = [msg EXCEPT !.skipCalled = TRUE]]
     ELSE IF ports >= 1
          THEN [w EXCEPT !.message =
                  [msg EXCEPT !.posted = << [version |-> CACHE_NAME] >>]]
          ELSE [w EXCEPT !.message = [msg EXCEPT !.threw = TRUE]]

\* The message listener: SKIP_WAITING calls self.skipWaiting(); GET_VERSION
\* posts { version: CACHE_NAME } on event.ports[0], which throws a TypeError
\* when the message came without a port; anything else falls through.
OnMessage(w, data, ports) ==
  LET msg == [NoMessage EXCEPT !.handled = TRUE, !.data = data, !.ports = ports]
  IN IF data.present /\ data.type = "SKIP_WAITING"
     THEN [w EXCEPT !.skipWaiting = TRUE,
                    !.message = [msg EXCEPT !.skipCalled = TRUE]]
     ELSE IF data.present /\ data.type = "GET_VERSION"
          THEN IF ports >= 1
               THEN [w EXCEPT !.message =
                       [msg EXCEPT !.posted = << [version |-> CACHE_NAME] >>]]
               ELSE [w EXCEPT !.message = [msg EXCEPT !.threw = TRUE]]
          ELSE [w EXCEPT !.message = msg]

\* The listener returned: CacheStorage went from `before` to `after`.
Handled(w, before, after) ==
  [w EXCEPT !.message.storesChanged = (after # before)]

\* A page posts a message to the worker; the listener is synchronous.
Message ==
  /\ worker.state \in {"installing", "installed", "activating", "activated"}
  /\ \E data \in MessageDatas : \E ports \in MessagePorts :
       worker' = Handled(OnMessage(worker, data, ports), caches, caches)
  /\ UNCHANGED << caches, online, siteVer, tasks >>

(* ------------------- push and notificationclick listeners ------------- *)

\* event.data of a push event: absent, or JSON with title, body and url
\* ("" for a url the payload does not have).
PushPayload(present, title, body, url) ==
  [present |-> present, title |-> title, body |-> body, url |-> url]

PushPayloads ==
  { PushPayload(FALSE, "", "", ""),
    PushPayload(TRUE, "New post", "Read it now", "/blog/post/"),
    PushPayload(TRUE, "Hello", "No link", "") }

\* The notification showNotification(data.title, options) displays.
Notification(data) ==
  [title |-> data.title, body |-> data.body,
   icon |-> "/icons/icon-192x192.png", badge |-> "/icons/badge-72x72.png",
   data |-> data.url, requireInteraction |-> TRUE,
   actions |-> << "open", "close" >>]

\* A listener without the test of event.data: a push without data is shown
\* as an empty notification.
OnPushShowsAlways(w, payload) ==
  [w EXCEPT !.push = [NoPush EXCEPT !.handled = TRUE, !.payload = payload,
                                    !.shown = << Notification(payload) >>],
            !.displayed = @ \cup { Notification(payload) }]

\* The push listener: nothing without event.data; else one showNotification.
OnPush(w, payload) ==
  IF ~payload.present
  THEN [w EXCEPT !.push = [NoPush EXCEPT !.handled = TRUE, !.payload = payload]]
  ELSE [w EXCEPT !.push = [NoPush EXCEPT !.handled = TRUE, !.payload = payload,
                                         !.shown = << Notification(payload) >>],
                 !.displayed = @ \cup { Notification(payload) }]

\* The push listener returned: CacheStorage went from `before` to `after`.
Notified(w, before, after) ==
  [w EXCEPT !.push.storesChanged = (after # before)]

Push ==
  /\ worker.state = "activated"
  /\ \E payload \in PushPayloads :
       worker' = Notified(OnPush(worker, payload), caches, caches)
  /\ UNCHANGED << caches, online, siteVer, tasks >>

\* event.action of a click: one of the two actions of the notification, or
\* "" for a click on its body.
ClickActions == {"open", "close", ""}

\* A listener that opens the window whatever the action.
OnNotificationClickOpensAlways(w, notification, action) ==
  [w EXCEPT !.displayed = @ \ {notification},
            !.click = [NoClick EXCEPT !.handled = TRUE, !.action = action,
                         !.data = notification.data, !.closed = TRUE,
                         !.opened = << IF notification.data # ""
                                       THEN notification.data ELSE "/" >>]]

\* The notificationclick listener: the notification is closed; for the
\* action 'open' or no action, clients.openWindow(notification.data || '/').
OnNotificationClick(w, notification, action) ==
  [w EXCEPT !.displayed = @ \ {notification},
            !.click = [NoClick EXCEPT !.handled = TRUE, !.action = action,
                         !.data = notification.data, !.closed = TRUE,
                         !.opened = IF action = "open" \/ action = ""
                                    THEN << IF notification.data # ""
                                            THEN notification.data ELSE "/" >>
                                    ELSE << >>]]

NotificationClick ==
  /\ worker.state = "activated"
  /\ \E notification \in worker.displayed : \E action \in ClickActions :
       worker' = OnNotificationClick(worker, notification, action)
  /\ UNCHANGED << caches, online, siteVer, tasks >>

(* --------------------------- failing storage -------------------------- *)

\* `await caches.open(RUNTIME_CACHE_NAME)` rejects inside the try block of
\* handleNavigationRequest: the catch block runs as after a network failure,
\* starting with caches.match(request).
NavAfterOpenFailed(task) ==
  [task EXCEPT !.storeError = TRUE, !.pc = "navMatch"]

NavCacheOpenFailed(t) ==
  /\ tasks[t].pc = "navOpen"
  /\ tasks' = [tasks EXCEPT ![t] = NavAfterOpenFailed(@)]
  /\ UNCHANGED << caches, online, siteVer, worker >>

\* The promise of a cache.put nobody awaits rejects: nothing is written and
\* nobody handles the rejection.
AfterPutFailed(task) ==
  [task EXCEPT !.storeError = TRUE, !.unhandled = TRUE, !.pc = "done"]

NavPutFailed(t) ==
  /\ tasks[t].pc = "navPut"
  /\ tasks' = [tasks EXCEPT ![t] = AfterPutFailed(@)]
  /\ UNCHANGED << caches, online, siteVer, worker >>

\* `await caches.open(RUNTIME_CACHE_NAME)` rejects inside the try block of
\* fetchAndCache: the catch block logs the error and throws it again. It
\* rejects the handler's promise, or, when the handler has returned the
\* cached response, a promise nobody handles.
FacAfterOpenFailed(task) ==
  IF task.detached
  THEN [task EXCEPT !.storeError = TRUE, !.unhandled = TRUE, !.pc = "done"]
  ELSE [task EXCEPT !.storeError = TRUE, !.outcome = "rejected", !.pc = "done"]

FacCacheOpenFailed(t) ==
  /\ tasks[t].pc = "facOpen"
  /\ tasks' = [tasks EXCEPT ![t] = FacAfterOpenFailed(@)]
  /\ UNCHANGED << caches, online, siteVer, worker >>

FacPutFailed(t) ==
  /\ tasks[t].pc = "facPut"
  /\ tasks' = [tasks EXCEPT ![t] = AfterPutFailed(@)]
  /\ UNCHANGED << caches, online, siteVer, worker >>

\* `await caches.match(...)` rejects inside the catch block of
\* handleNavigationRequest, at the lookup of the request or at the lookup of
\* '/': nothing catches it there, and the handler's promise rejects.
NavAfterMatchFailed(task) ==
  [task EXCEPT !.storeError = TRUE, !.outcome = "rejected", !.pc = "done"]

NavMatchFailed(t) ==
  /\ tasks[t].pc \in {"navMatch", "navRoot"}
  /\ tasks' = [tasks EXCEPT ![t] = NavAfterMatchFailed(@)]
  /\ UNCHANGED << caches, online, siteVer, worker >>

\* `await caches.match(request)` rejects in handleStaticAsset or in
\* handleRuntimeAsset, before fetchAndCache is called: the handler's promise
\* rejects.
AssetAfterMatchFailed(task) ==
  [task EXCEPT !.storeError = TRUE, !.outcome = "rejected", !.pc = "done"]

AssetMatchFailed(t) ==
  /\ tasks[t].pc \in {"staticMatch", "runtimeMatch"}
  /\ tasks' = [tasks EXCEPT ![t] = AssetAfterMatchFailed(@)]
  /\ UNCHANGED << caches, online, siteVer, worker >>

(* ----------------------------- specification -------------------------- *)

Next ==
  \/ ToggleNetwork
  \/ Deploy
  \/ Register
  \/ InstallAddAll
  \/ InstallSettled
  \/ ActivateKeys
  \/ ActivateDelete
  \/ ActivateClaim
  \/ Unregister
  \/ \E t \in Slots : FetchEvent(t)
  \/ \E t \in Slots : NavFetchResolved(t)
  \/ \E t \in Slots : NavFetchRejected(t)
  \/ \E t \in Slots : NavCacheOpened(t)
  \/ \E t \in Slots : NavPutDone(t)
  \/ \E t \in Slots : NavMatched(t)
  \/ \E t \in Slots : NavFallback(t)
  \/ \E t \in Slots : StaticMatched(t)
  \/ \E t \in Slots : RuntimeMatched(t)
  \/ \E t \in Slots : FacFetchResolved(t)
  \/ \E t \in Slots : FacFetchRejected(t)
  \/ \E t \in Slots : FacCacheOpened(t)
  \/ \E t \in Slots : FacPutDone(t)
  \/ \E t \in Slots : DefaultFetchResolved(t)
  \/ \E t \in Slots : DefaultFetchRejected(t)

Spec == Init /\ [][Next]_vars

\* The worker on a CacheStorage whose operations can fail (quota, storage
\* errors, storage that is not available).
NextFault ==
  \/ Next
  \/ \E t \in Slots : NavCacheOpenFailed(t)
  \/ \E t \in Slots : NavPutFailed(t)
  \/ \E t \in Slots : FacCacheOpenFailed(t)
  \/ \E t \in Slots : FacPutFailed(t)
  \/ \E t \in Slots : NavMatchFailed(t)
  \/ \E t \in Slots : AssetMatchFailed(t)

SpecFault == Init /\ [][NextFault]_vars

\* Concurrent requests for the same URLs to an activated worker: the state
\* after a first registration whose precache succeeded, from empty storage.
ActivatedWorker ==
  [NoWorker EXCEPT !.state = "activated", !.installPc = "done",
                   !.installPromise = "fulfilled", !.precache = "stored",
                   !.precacheChanged = Len(STATIC_ASSETS), !.skipWaiting = TRUE,
                   !.activatePc = "done",
                   !.activateNames = << STATIC_CACHE_NAME >>,
                   !.activatePromise = "fulfilled", !.claimed = TRUE]

PrecachedStore ==
  Store(STATIC_CACHE_NAME, [u \in PrecacheUrls |-> NetworkResponse(u, 200, 0)])

InitRace ==
  /\ caches = << PrecachedStore >>
  /\ online = TRUE
  /\ siteVer = 0
  /\ worker = ActivatedWorker
  /\ tasks = [t \in 1..(MaxReq + 1) |-> IdleTask]

\* The requests that race: '/' as a navigation and as a subresource, and an
\* image.
RaceRequests ==
  { Request("GET", "navigate", RootUrl),
    Request("GET", "cors", RootUrl),
    Request("GET", "no-cors", SiteUrl("/images/photo.png")) }

RaceFetchEvent(t) ==
  /\ worker.state = "activated"
  /\ tasks[t].pc \in {"idle", "done"}
  /\ \E request \in RaceRequests :
       tasks' = [tasks EXCEPT ![t] = Dispatched(Dispatch(request), caches)]
  /\ UNCHANGED << caches, online, siteVer, worker >>

NextRace ==
  \/ ToggleNetwork
  \/ Deploy
  \/ \E t \in Slots : RaceFetchEvent(t)
  \/ \E t \in Slots : NavFetchResolved(t)
  \/ \E t \in Slots : NavFetchRejected(t)
  \/ \E t \in Slots : NavCacheOpened(t)
  \/ \E t \in Slots : NavPutDone(t)
  \/ \E t \in Slots : NavMatched(t)
  \/ \E t \in Slots : StaticMatched(t)
  \/ \E t \in Slots : RuntimeMatched(t)
  \/ \E t \in Slots : FacFetchResolved(t)
  \/ \E t \in Slots : FacFetchRejected(t)
  \/ \E t \in Slots : FacCacheOpened(t)
  \/ \E t \in Slots : FacPutDone(t)

SpecRace == InitRace /\ [][NextRace]_vars

\* The listener's classification alone, over methods, modes and URLs: a
\* fetch event reaches an activated worker, whose precache succeeded or
\* failed, and the listener runs up to the handler it picks.
ActivatedAfterFailure ==
  [ActivatedWorker EXCEPT !.precache = "failed", !.precacheChanged = 0,
                          !.skipWaiting = FALSE]

ClassifyMethods == {"GET", "POST", "HEAD"}
ClassifyModes == {"navigate", "cors", "no-cors", "same-origin"}
ClassifyUrls ==
  { RootUrl, SiteUrl("/about/"), SiteUrl("/css/main.css"),
    Url("https:", SiteHost, "/css/main.css", "?v=2"),
    SiteUrl("/images/photo.png"), SiteUrl("/js/extra.js"),
    SiteUrl("/api/data"), SiteUrl("/blog/post/"),
    Url("http:", SiteHost, "/", ""),
    Url("https:", "fonts.googleapis.com", "/css2", "?family=Inter"),
    Url("http:", "fonts.gstatic.com", "/s/inter.woff2", ""),
    Url("chrome-extension:", "abcdef", "/popup.html", ""),
    Url("chrome-extension:", "abcdef", "/css/main.css", ""),
    Url("moz-extension:", "abcdef", "/", ""),
    Url("file:", "", "/images/photo.png", ""),
    Url("data:", "", "text/html,offline", "") }

ClassifyRequests ==
  { Request(method, mode, url) :
      method \in ClassifyMethods, mode \in ClassifyModes, url \in ClassifyUrls }

InitClassify ==
  /\ \/ caches = << PrecachedStore >> /\ worker = ActivatedWorker
     \/ /\ caches = << Store(STATIC_CACHE_NAME, NoEntries) >>
        /\ worker = ActivatedAfterFailure
  /\ online \in BOOLEAN
  /\ siteVer = 0
  /\ tasks = [t \in 1..MaxReq |-> IdleTask]

ClassifyEvent(t) ==
  /\ worker.state = "activated"
  /\ \E request \in ClassifyRequests :
       tasks' = [tasks EXCEPT ![t] = Dispatched(Dispatch(request), caches)]
  /\ UNCHANGED << caches, online, siteVer, worker >>

NextClassify == \E t \in Slots : ClassifyEvent(t)

SpecClassify == InitClassify /\ [][NextClassify]_vars

\* Concurrent requests for different URLs to an activated worker, whose
\* precache succeeded or failed: two pages and an image.
InitIndependent ==
  /\ \/ caches = << PrecachedStore >> /\ worker = ActivatedWorker
     \/ /\ caches = << Store(STATIC_CACHE_NAME, NoEntries) >>
        /\ worker = ActivatedAfterFailure
  /\ online \in BOOLEAN
  /\ siteVer = 0
  /\ tasks = [t \in 1..(MaxReq + 1) |-> IdleTask]

IndependentRequests ==
  { Request("GET", "navigate", RootUrl),
    Request("GET", "navigate", SiteUrl("/blog/post/")),
    Request("GET", "no-cors", SiteUrl("/images/photo.png")) }

IndependentFetchEvent(t) ==
  /\ worker.state = "activated"
  /\ tasks[t].pc \in {"idle", "done"}
  /\ \E request \in IndependentRequests :
       tasks' = [tasks EXCEPT ![t] = Dispatched(Dispatch(request), caches)]
  /\ UNCHANGED << caches, online, siteVer, worker >>

NextIndependent ==
  \/ ToggleNetwork
  \/ Deploy
  \/ \E t \in Slots : IndependentFetchEvent(t)
  \/ \E t \in Slots : NavFetchResolved(t)
  \/ \E t \in Slots : NavFetchRejected(t)
  \/ \E t \in Slots : NavCacheOpened(t)
  \/ \E t \in Slots : NavPutDone(t)
  \/ \E t \in Slots : NavMatched(t)
  \/ \E t \in Slots : NavFallback(t)
  \/ \E t \in Slots : RuntimeMatched(t)
  \/ \E t \in Slots : FacFetchResolved(t)
  \/ \E t \in Slots : FacFetchRejected(t)
  \/ \E t \in Slots : FacCacheOpened(t)
  \/ \E t \in Slots : FacPutDone(t)

SpecIndependent == InitIndependent /\ [][NextIndependent]_vars

\* Every kind of event the worker listens to, over its life from the
\* registration on: install, activate, fetch, message, push and
\* notificationclick. The pages ask for a page and an image.
EventRequests ==
  { Request("GET", "navigate", SiteUrl("/blog/post/")),
    Request("GET", "no-cors", SiteUrl("/images/photo.png")) }

EventsFetchEvent(t) ==
  /\ worker.state = "activated"
  /\ tasks[t].pc \in {"idle", "done"}
  /\ \E request \in EventRequests :
       tasks' = [tasks EXCEPT ![t] = Dispatched(Dispatch(request), caches)]
  /\ UNCHANGED << caches, online, siteVer, worker >>

NextEvents ==
  \/ Register
  \/ InstallAddAll
  \/ InstallSettled
  \/ ActivateKeys
  \/ ActivateDelete
  \/ ActivateClaim
  \/ Message
  \/ Push
  \/ NotificationClick
  \/ \E t \in Slots : EventsFetchEvent(t)
  \/ \E t \in Slots : NavFetchResolved(t)
  \/ \E t \in Slots : NavFetchRejected(t)
  \/ \E t \in Slots : NavCacheOpened(t)
  \/ \E t \in Slots : NavPutDone(t)
  \/ \E t \in Slots : NavMatched(t)
  \/ \E t \in Slots : NavFallback(t)
  \/ \E t \in Slots : RuntimeMatched(t)
  \/ \E t \in Slots : FacFetchResolved(t)
  \/ \E t \in Slots : FacFetchRejected(t)
  \/ \E t \in Slots : FacCacheOpened(t)
  \/ \E t \in Slots : FacPutDone(t)

SpecEvents == Init /\ [][NextEvents]_vars

\* Push messages and clicks on their notifications, on an activated worker.
NextNotify ==
  \/ Push
  \/ NotificationClick

SpecNotify == InitClassify /\ [][NextNotify]_vars

\* The worker's lifecycle and its control channel, with no page fetching.
NextControl ==
  \/ ToggleNetwork
  \/ Deploy
  \/ Register
  \/ InstallAddAll
  \/ InstallSettled
  \/ ActivateKeys
  \/ ActivateDelete
  \/ ActivateClaim
  \/ Unregister
  \/ Message

SpecControl == Init /\ [][NextControl]_vars

(* ------------------------------- properties --------------------------- *)

IsNavigation(task) == task.responded /\ Classify(task.req) = "navigation"
IsStatic(task) == task.responded /\ Classify(task.req) = "static"
IsRuntime(task) == task.responded /\ Classify(task.req) = "runtime"

\* C1: when the precache of an install attempt failed, the promise given to
\* the install event rejects and the worker is neither installed nor
\* activated.
C1_InstallFailurePropagates ==
  worker.precache = "failed" =>
    /\ worker.installPromise # "fulfilled"
    /\ worker.state \notin {"installed", "activating", "activated"}

\* C2: after a successful install the keys of the static store are exactly
\* the URLs of the precache list.
C2_PrecacheKeys ==
  worker.precache = "stored" =>
    /\ STATIC_CACHE_NAME \in StoreNames(caches)
    /\ DOMAIN EntriesOf(caches, STATIC_CACHE_NAME) = PrecacheUrls

C2_Witness ==
  /\ worker.precache = "stored"
  /\ worker.state = "installing"
  /\ DOMAIN EntriesOf(caches, STATIC_CACHE_NAME) = PrecacheUrls
  /\ Cardinality(PrecacheUrls) = Len(STATIC_ASSETS)

\* C3: a navigation whose network fetch failed is never rejected, and when
\* its handling ends it has resolved with a response: a cached one or the
\* offline document.
C3_NavigationAbsorbsFailure ==
  \A t \in Slots :
    (IsNavigation(tasks[t]) /\ tasks[t].netError) =>
      /\ tasks[t].outcome # "rejected"
      /\ tasks[t].pc = "done" =>
            /\ tasks[t].outcome = "resolved"
            /\ tasks[t].result.kind \in {"network", "offline"}

C3_Witness ==
  \E t \in Slots :
    /\ IsNavigation(tasks[t]) /\ tasks[t].netError /\ tasks[t].pc = "done"
    /\ tasks[t].result = OfflineResponse
    /\ worker.precache = "failed"

\* C4: after a failed network fetch the navigation handler returns an entry
\* held for the exact URL when some store holds one at its first lookup (and
\* then looks no further); only when none does it looks up '/', and returns
\* an entry held for '/' when some store holds one; only when none does it
\* returns the offline document.
C4_FallbackOrder ==
  \A t \in Slots :
    (IsNavigation(tasks[t]) /\ tasks[t].netError /\ tasks[t].lookups >= 1) =>
      IF tasks[t].heldExact # {}
      THEN /\ tasks[t].lookups = 1
           /\ tasks[t].pc = "done"
           /\ tasks[t].outcome = "resolved"
           /\ tasks[t].result \in tasks[t].heldExact
      ELSE /\ tasks[t].pc \in {"navRoot", "done"}
           /\ tasks[t].pc = "navRoot" =>
                tasks[t].lookups = 1 /\ tasks[t].outcome = "pending"
           /\ tasks[t].pc = "done" =>
                /\ tasks[t].lookups = 2
                /\ tasks[t].outcome = "resolved"
                /\ IF tasks[t].heldRoot # {}
                   THEN tasks[t].result \in tasks[t].heldRoot
                   ELSE tasks[t].result = OfflineResponse

\* The exact URL is not cached and '/' is: the cached '/' is the answer.
C4_Witness ==
  \E t \in Slots :
    /\ IsNavigation(tasks[t]) /\ tasks[t].netError /\ tasks[t].pc = "done"
    /\ tasks[t].req.url # RootUrl
    /\ tasks[t].result.url = RootUrl
    /\ tasks[t].lookups = 2
    /\ tasks[t].heldExact = {}
    /\ tasks[t].result \in tasks[t].heldRoot

\* C5: with neither the exact URL nor '/' in any store, the answer to an
\* offline navigation is the offline document, status 200 and Content-Type
\* text/html, and producing it changes no store.
C5_OfflineDocument ==
  \A t \in Slots :
    (/\ IsNavigation(tasks[t]) /\ tasks[t].netError /\ tasks[t].lookups = 2
     /\ tasks[t].heldExact = {}
     /\ tasks[t].heldRoot = {}) =>
      /\ tasks[t].outcome = "resolved"
      /\ tasks[t].result.kind = "offline"
      /\ tasks[t].result.status = 200
      /\ tasks[t].result.contentType = "text/html"
      /\ tasks[t].writes = 0

C5_Witness ==
  \E t \in Slots :
    /\ IsNavigation(tasks[t]) /\ tasks[t].netError /\ tasks[t].pc = "done"
    /\ tasks[t].result.kind = "offline"
    /\ tasks[t].result.status = 200
    /\ tasks[t].lookups = 2
    /\ tasks[t].heldRoot = {}


\* C6: a navigation the network answers with a success returns that network
\* response, and when the handling ends (the cache.put it started completes)
\* the runtime store holds that response under the request's URL.
C6_NavigationOnline ==
  \A t \in Slots :
    (IsNavigation(tasks[t]) /\ Ok(tasks[t].net)) =>
      /\ tasks[t].net.kind = "network"
      /\ tasks[t].net.url = tasks[t].req.url
      /\ tasks[t].pc \in {"navOpen", "navPut", "done"}
      /\ tasks[t].pc \in {"navPut", "done"} =>
           /\ tasks[t].outcome = "resolved"
           /\ tasks[t].result = tasks[t].net
      /\ tasks[t].pc = "done" =>
           tasks[t].stored = tasks[t].result

\* An online navigation to '/' after a new deployment: the answer is the new
\* content, not the precached copy, and the runtime store holds it.
C6_Witness ==
  \E t \in Slots :
    /\ IsNavigation(tasks[t]) /\ tasks[t].pc = "done" /\ ~tasks[t].netError
    /\ tasks[t].req.url = RootUrl
    /\ tasks[t].result = NetworkResponse(RootUrl, 200, 1)
    /\ EntryIn(caches, STATIC_CACHE_NAME, RootUrl) = NetworkResponse(RootUrl, 200, 0)
    /\ tasks[t].stored = tasks[t].result
    /\ EntryIn(caches, RUNTIME_CACHE_NAME, RootUrl) = tasks[t].result

\* C7 as stated: a static-asset request answered from the cache attempts no
\* network call.
C7_NoNetworkCall ==
  \A t \in Slots :
    (IsStatic(tasks[t]) /\ tasks[t].cached # NoResponse) =>
      /\ tasks[t].result = tasks[t].cached
      /\ tasks[t].fetches = 0

\* C7 as amended: a static-asset request whose URL the static store holds is
\* answered with that entry at once; one network call is started in the
\* background, and neither its failure nor its success changes the answer.
C7_CacheFirstAnswer ==
  \A t \in Slots :
    (/\ IsStatic(tasks[t]) /\ tasks[t].lookups = 1
     /\ tasks[t].staticExact # NoResponse) =>
      /\ tasks[t].outcome = "resolved"
      /\ tasks[t].result
           = tasks[t].staticExact
      /\ tasks[t].fetches = 1
      /\ tasks[t].pc \in {"facFetch", "facOpen", "facPut", "done"}

\* Offline, the entry has been returned and the background fetch has failed.
C7_Witness ==
  \E t \in Slots :
    /\ IsStatic(tasks[t]) /\ tasks[t].detached /\ tasks[t].pc = "done"
    /\ tasks[t].netError /\ ~online
    /\ tasks[t].outcome = "resolved"
    /\ tasks[t].result = tasks[t].staticExact
    /\ tasks[t].fetches = 1

\* C8: when the background refetch of a static-asset hit has stored its
\* response, a lookup of the URL (the next request's) finds that response.
C8_StaticRefreshObserved ==
  \A t \in Slots :
    (/\ IsStatic(tasks[t]) /\ tasks[t].detached
     /\ tasks[t].pc = "done" /\ Ok(tasks[t].net)) =>
      tasks[t].visible = tasks[t].net

\* C9: a runtime-asset request with a cached entry is answered with a cached
\* entry in the step that starts its network fetch, before that fetch has
\* settled, and nothing the fetch does afterwards changes the answer.
C9_StaleDelivered ==
  \A t \in Slots :
    (/\ IsRuntime(tasks[t]) /\ tasks[t].lookups = 1
     /\ tasks[t].heldExact # {}) =>
      /\ tasks[t].outcome = "resolved"
      /\ tasks[t].result \in tasks[t].heldExact
      /\ tasks[t].fetches = 1
      /\ tasks[t].pc \in {"facFetch", "facOpen", "facPut", "done"}

\* The cached entry has been delivered and the network fetch is still pending.
C9_Witness ==
  \E t \in Slots :
    /\ IsRuntime(tasks[t]) /\ tasks[t].pc = "facFetch" /\ tasks[t].fetches = 1
    /\ tasks[t].outcome = "resolved"
    /\ tasks[t].result \in tasks[t].heldExact

\* C10: when the network fetch of a runtime-asset hit has stored its response,
\* a lookup of the URL finds that response, and a runtime-asset request is
\* answered with an entry the stores hold at its lookup.
C10_RuntimeRefreshObserved ==
  \A t \in Slots :
    /\ (/\ IsRuntime(tasks[t]) /\ tasks[t].detached
        /\ tasks[t].pc = "done" /\ Ok(tasks[t].net)) =>
         tasks[t].visible = tasks[t].net
    /\ (IsRuntime(tasks[t]) /\ tasks[t].lookups = 1 /\ tasks[t].heldExact # {}) =>
         tasks[t].result \in tasks[t].heldExact

\* The hit served the old content, the fetch brought the new one, and the new
\* one is what a lookup now finds.
C10_Witness ==
  \E t \in Slots :
    /\ IsRuntime(tasks[t]) /\ tasks[t].detached /\ tasks[t].pc = "done"
    /\ tasks[t].result.ver = 0
    /\ tasks[t].net = NetworkResponse(tasks[t].req.url, 200, 1)
    /\ tasks[t].visible = tasks[t].net

\* The names caches.keys() gave the activate listener.
ActivateNameSet == { worker.activateNames[i] : i \in 1..Len(worker.activateNames) }

CurrentNames == {STATIC_CACHE_NAME, RUNTIME_CACHE_NAME}

\* C11 as stated: once the worker is activated, no store is left under a name
\* that existed before activation and is not one of the two current names,
\* whatever the name.
C11_AllOtherNamesDeleted ==
  worker.state = "activated" =>
    \A name \in ActivateNameSet \ CurrentNames : name \notin StoreNames(caches)

\* C11 as amended: once the worker is activated, no store is left under a
\* name that existed before activation, starts with 'terminal-' and is not
\* one of the two current names; a store under a name that does not start
\* with 'terminal-' is left as it was.
C11_OldTerminalNamesDeleted ==
  worker.state = "activated" =>
    \A name \in ActivateNameSet \ CurrentNames :
      IF StartsWithTerminal(name) THEN name \notin StoreNames(caches)
      ELSE name \in StoreNames(caches) /\ name \notin worker.activateChanged

\* Two old generations were found and both are gone; the other script's
\* store is still there.
C11_Witness ==
  /\ worker.state = "activated"
  /\ {"terminal-static-v0", "terminal-runtime-v0"} \subseteq ActivateNameSet
  /\ StoreNames(caches) \cap {"terminal-static-v0", "terminal-runtime-v0"} = {}
  /\ STATIC_CACHE_NAME \in StoreNames(caches)
  /\ "analytics-cache" \in StoreNames(caches)

\* C12: a store under a current name that existed before activation exists
\* after it, with the entries it had.
C12_CurrentStoresKept ==
  worker.activatePc \in {"claim", "done"} =>
    \A name \in ActivateNameSet \cap CurrentNames :
      /\ name \notin worker.activateChanged
      /\ name \in StoreNames(caches)

\* A later registration: both current stores existed, with entries, when the
\* activate listener ran, and its deletions left them as they were.
C12_Witness ==
  /\ worker.state = "activating"
  /\ worker.activatePc = "claim"
  /\ CurrentNames \subseteq ActivateNameSet
  /\ worker.activateChanged = {}
  /\ DOMAIN EntriesOf(caches, STATIC_CACHE_NAME) = PrecacheUrls
  /\ EntriesOf(caches, RUNTIME_CACHE_NAME) # NoEntries

\* The tasks a caching strategy handles.
IsStrategy(task) == IsNavigation(task) \/ IsStatic(task) \/ IsRuntime(task)

\* C13: every entry of every store holds a response with a successful
\* status; a strategy the network answered with a redirect or an error ends
\* there, has changed no store, and hands that response to its caller (the
\* page, unless a cached response has been returned to it already).
C13_OnlyOkCached ==
  /\ \A i \in 1..Len(caches) : \A u \in DOMAIN caches[i].entries :
       Ok(caches[i].entries[u])
  /\ \A t \in Slots :
       (/\ IsStrategy(tasks[t]) /\ tasks[t].net # NoResponse
        /\ ~Ok(tasks[t].net)) =>
         /\ tasks[t].pc = "done"
         /\ tasks[t].writes = 0
         /\ tasks[t].stored = NoResponse
         /\ ~tasks[t].detached =>
              tasks[t].outcome = "resolved" /\ tasks[t].result = tasks[t].net

\* A runtime asset no store holds, answered 404: the 404 is the answer and
\* still no store holds the URL.
C13_Witness ==
  \E t \in Slots :
    /\ IsRuntime(tasks[t]) /\ ~tasks[t].detached /\ tasks[t].pc = "done"
    /\ tasks[t].net.status = 404
    /\ tasks[t].result = tasks[t].net
    /\ RUNTIME_CACHE_NAME \in StoreNames(caches)
    /\ CachesMatch(caches, tasks[t].req.url) = NoResponse

\* C14: a cache write that fails (caches.open or cache.put of a response the
\* network delivered) neither rejects the handler nor replaces its answer:
\* the page receives the network response, or the cached response already
\* returned to it.
C14_WriteFailureAbsorbed ==
  \A t \in Slots :
    (IsStrategy(tasks[t]) /\ tasks[t].storeError /\ Ok(tasks[t].net)) =>
      /\ tasks[t].outcome # "rejected"
      /\ tasks[t].pc = "done" =>
           /\ tasks[t].outcome = "resolved"
           /\ tasks[t].result
                = IF tasks[t].detached THEN tasks[t].cached ELSE tasks[t].net

\* C15: for a request whose method is not GET the listener returns at once:
\* no respondWith, no fetch, no cache lookup, no store changed.
C15_NonGetNotIntercepted ==
  \A t \in Slots :
    tasks[t].req.method \notin {"", "GET"} =>
      /\ ~tasks[t].responded
      /\ tasks[t].pc = "done"
      /\ tasks[t].outcome = "none"
      /\ tasks[t].fetches = 0
      /\ tasks[t].lookups = 0
      /\ tasks[t].writes = 0
      /\ tasks[t].net = NoResponse
      /\ tasks[t].result = NoResponse

\* A form posted as a navigation to a URL the static store holds.
C15_Witness ==
  \E t \in Slots :
    /\ tasks[t].req = Request("POST", "navigate", SiteUrl("/contact/"))
    /\ tasks[t].pc = "done"
    /\ ~tasks[t].responded
    /\ CachesMatch(caches, tasks[t].req.url) # NoResponse

\* C16: the reply to a GET_VERSION message sent with a port is one message
\* whose version is the name of the static store install populates.
C16_VersionIsStaticStoreName ==
  (/\ worker.message.handled
   /\ worker.message.data = MessageData(TRUE, "GET_VERSION")
   /\ worker.message.ports >= 1) =>
    worker.message.posted = << [version |-> STATIC_CACHE_NAME] >>

\* C17: a message that is neither SKIP_WAITING nor GET_VERSION (another
\* type, no type, no data) has no effect: nothing posted, skipWaiting not
\* called, nothing thrown, no store changed.
C17_UnknownMessageIgnored ==
  (/\ worker.message.handled
   /\ worker.message.data \notin { MessageData(TRUE, "SKIP_WAITING"),
                                    MessageData(TRUE, "GET_VERSION") }) =>
    /\ worker.message.posted = << >>
    /\ ~worker.message.skipCalled
    /\ ~worker.message.threw
    /\ ~worker.message.storesChanged

\* A message of an unknown type that came with a port to reply on, to a
\* worker whose precache failed (skipWaiting was never called).
C17_Witness ==
  /\ worker.message.handled
  /\ worker.message.data = MessageData(TRUE, "PING")
  /\ worker.message.ports = 1
  /\ worker.message.posted = << >>
  /\ worker.state = "activated"
  /\ ~worker.skipWaiting

\* C18: a runtime-asset request no store holds an entry for, whose network
\* fetch fails, resolves with a response; it does not reject.
C18_RuntimeMissFailureResolved ==
  \A t \in Slots :
    (/\ IsRuntime(tasks[t]) /\ tasks[t].lookups = 1
     /\ tasks[t].heldExact = {} /\ tasks[t].netError) =>
      /\ tasks[t].outcome = "resolved"
      /\ tasks[t].result # NoResponse

\* C19: a static-asset request no store holds an entry for returns the
\* network's successful response and, once its cache.put has completed, the
\* static store holds that response; when the fetch fails the handler
\* rejects and has changed no store.
C19_StaticMissStoredInStaticStore ==
  \A t \in Slots :
    (IsStatic(tasks[t]) /\ tasks[t].lookups = 1 /\ tasks[t].heldExact = {}) =>
      /\ (tasks[t].pc = "done" /\ Ok(tasks[t].net)) =>
           /\ tasks[t].outcome = "resolved"
           /\ tasks[t].result = tasks[t].net
           /\ tasks[t].storedStatic = tasks[t].net
      /\ tasks[t].netError =>
           /\ tasks[t].outcome = "rejected"
           /\ tasks[t].writes = 0

\* C20: when an asset of the precache failed, no entry of the static store
\* differs from what it was before the attempt; and the static store never
\* holds a part of the precache list, or entries of different deployments.
C20_PrecacheAtomic ==
  /\ worker.precache = "failed" => worker.precacheChanged = 0
  /\ DOMAIN EntriesOf(caches, STATIC_CACHE_NAME) \in { {}, PrecacheUrls }
  /\ \A u, v \in DOMAIN EntriesOf(caches, STATIC_CACHE_NAME) :
       EntriesOf(caches, STATIC_CACHE_NAME)[u].ver
         = EntriesOf(caches, STATIC_CACHE_NAME)[v].ver

\* A later install, after a new deployment, fails on one of its assets, the
\* network being up: the static store still holds the whole previous
\* precache.
C20_Witness ==
  /\ worker.precache = "failed"
  /\ worker.precacheChanged = 0
  /\ online
  /\ siteVer = 1
  /\ DOMAIN EntriesOf(caches, STATIC_CACHE_NAME) = PrecacheUrls
  /\ \A u \in PrecacheUrls : EntriesOf(caches, STATIC_CACHE_NAME)[u].ver = 0

\* C21: the install listener calls skipWaiting exactly when its precache
\* succeeded, and then every asset of the list is stored.
C21_SkipWaitingAfterPrecache ==
  /\ worker.skipWaiting =>
       /\ worker.precache = "stored"
       /\ DOMAIN EntriesOf(caches, STATIC_CACHE_NAME) = PrecacheUrls
  /\ worker.precache = "stored" => worker.skipWaiting
  /\ worker.precache = "failed" => ~worker.skipWaiting

\* An install attempt whose precache failed has run to its end: skipWaiting
\* was not called.
C21_Witness ==
  /\ worker.state = "installing"
  /\ worker.installPc = "done"
  /\ worker.precache = "failed"
  /\ ~worker.skipWaiting

\* C22: the clients are claimed only when the deletions have settled, and
\* the promise given to the activate event's waitUntil is fulfilled only
\* when both the deletions and the claim are done; until then the worker is
\* not activated.
C22_ClaimAfterDeletions ==
  /\ worker.claimed =>
       /\ worker.activatePc = "done"
       /\ \A name \in ActivateNameSet \ CurrentNames :
            StartsWithTerminal(name) => name \notin StoreNames(caches)
  /\ worker.activatePromise = "fulfilled" =>
       worker.claimed /\ worker.activatePc = "done"
  /\ worker.activatePc \in {"delete", "claim"} =>
       /\ ~worker.claimed
       /\ worker.activatePromise = "pending"
       /\ worker.state = "activating"
  /\ worker.state = "activated" => worker.activatePromise = "fulfilled"

\* The old generations have been deleted and the clients are not claimed yet.
C22_Witness ==
  /\ worker.state = "activating"
  /\ worker.activatePc = "claim"
  /\ ~worker.claimed
  /\ worker.activatePromise = "pending"
  /\ "terminal-static-v0" \in ActivateNameSet
  /\ "terminal-static-v0" \notin StoreNames(caches)

\* C23: from every state of CacheStorage and of the network, a second run of
\* the install listener's cache operations (open the static store, addAll
\* with the same asset failing or none) leaves the stores as the first run
\* left them, and so does a second run of the activate listener's clean-up;
\* an activation that finds only current names changes no store.
C23_Idempotent ==
  /\ \A failing \in 0..Len(STATIC_ASSETS) :
       LET once == AddAll(CachesOpen(caches, STATIC_CACHE_NAME),
                          STATIC_CACHE_NAME, failing, siteVer)
       IN AddAll(CachesOpen(once, STATIC_CACHE_NAME),
                 STATIC_CACHE_NAME, failing, siteVer) = once
  /\ LET once == DeleteStale(caches, CacheKeys(caches), 1)
     IN DeleteStale(once, CacheKeys(once), 1) = once
  /\ (worker.activatePc \in {"claim", "done"}
        /\ ActivateNameSet \subseteq CurrentNames) =>
       worker.activateChanged = {}

\* A later registration with the deployment unchanged: the precache
\* succeeded and changed no entry, the clean-up found both current stores
\* and changed nothing.
C23_Witness ==
  /\ worker.state = "activated"
  /\ worker.precache = "stored"
  /\ worker.precacheChanged = 0
  /\ ActivateNameSet = CurrentNames
  /\ worker.activateChanged = {}
  /\ EntriesOf(caches, RUNTIME_CACHE_NAME) # NoEntries

IsDefault(task) == task.req.method # "" /\ Classify(task.req) = "default"

\* C24 as stated: for a GET http(s) request that is no navigation, no
\* precache asset and matches no runtime pattern the listener does not call
\* respondWith, and no store is read or modified.
C24_DefaultNotIntercepted ==
  \A t \in Slots :
    IsDefault(tasks[t]) =>
      /\ ~tasks[t].responded
      /\ tasks[t].lookups = 0
      /\ tasks[t].writes = 0

\* C24 as amended: such a request is answered with respondWith(fetch(request)):
\* one network fetch, whose response, whatever its status, is the answer and
\* whose failure rejects; no store is read or modified.
C24_DefaultPassedThrough ==
  \A t \in Slots :
    IsDefault(tasks[t]) =>
      /\ tasks[t].responded
      /\ tasks[t].handler = "fetch"
      /\ tasks[t].fetches = 1
      /\ tasks[t].lookups = 0
      /\ tasks[t].writes = 0
      /\ tasks[t].cached = NoResponse
      /\ tasks[t].pc \in {"defaultFetch", "done"}
      /\ tasks[t].pc = "done" =>
           IF tasks[t].netError
           THEN tasks[t].outcome = "rejected" /\ tasks[t].result = NoResponse
           ELSE /\ tasks[t].outcome = "resolved"
                /\ tasks[t].result = tasks[t].net
                /\ tasks[t].net.kind = "network"
                /\ tasks[t].net.url = tasks[t].req.url

\* The network answered 404 and the 404 is the answer; the runtime store
\* exists and holds nothing for the URL.
C24_Witness ==
  \E t \in Slots :
    /\ IsDefault(tasks[t]) /\ tasks[t].pc = "done"
    /\ tasks[t].result.status = 404
    /\ RUNTIME_CACHE_NAME \in StoreNames(caches)
    /\ HeldEntries(caches, tasks[t].req.url) = {}

\* The tasks whose cache.put for a URL has completed.
Writers(url) ==
  { t \in Slots : /\ IsStrategy(tasks[t]) /\ tasks[t].req.url = url
                  /\ tasks[t].pc = "done" /\ Ok(tasks[t].net)
                  /\ ~tasks[t].storeError }

\* C25: of the requests for one URL whose cache writes have completed, at
\* most one wrote last, and the runtime store's entry for the URL is the
\* network response of that one; every write put its own response in the
\* store when it completed, and the entry is never missing afterwards.
C25_LastWriteWins ==
  \A t \in Slots :
    LET url == tasks[t].req.url
        entry == EntryIn(caches, RUNTIME_CACHE_NAME, url)
    IN t \in Writers(url) =>
         /\ tasks[t].stored = tasks[t].net
         /\ entry # NoResponse /\ entry.url = url /\ Ok(entry)
         /\ tasks[t].latest => entry = tasks[t].net
         /\ \A s \in Writers(url) : (tasks[s].latest /\ tasks[t].latest) => s = t
         /\ Writers(url) = Slots => \E s \in Slots : tasks[s].latest

\* Two requests for '/': the one that fetched the older deployment wrote
\* last, and the older content is what the store holds.
C25_Witness ==
  \E s, t \in Slots :
    /\ s # t
    /\ {s, t} \subseteq Writers(RootUrl)
    /\ tasks[s].net.ver = 1 /\ ~tasks[s].latest
    /\ tasks[t].net.ver = 0 /\ tasks[t].latest
    /\ EntryIn(caches, RUNTIME_CACHE_NAME, RootUrl) = tasks[t].net

\* The paths of the precache list.
PrecachePaths == { STATIC_ASSETS[i] : i \in 1..Len(STATIC_ASSETS) }

\* C26: every request gets exactly one treatment, decided by its method,
\* mode and URL in this order: not GET or not http(s), none (no
\* respondWith); else navigate mode, handleNavigationRequest; else a path of
\* the precache list, handleStaticAsset; else a runtime pattern,
\* handleRuntimeAsset; else fetch. The content of the stores plays no part.
C26_ClassificationPrecedence ==
  \A t \in Slots :
    LET r == tasks[t].req
        expected ==
          IF r.method # "GET" \/ r.url.protocol \notin {"http:", "https:"}
          THEN "none"
          ELSE IF r.mode = "navigate" THEN "handleNavigationRequest"
          ELSE IF r.url.pathname \in PrecachePaths THEN "handleStaticAsset"
          ELSE IF shouldCacheRuntime(r) THEN "handleRuntimeAsset"
          ELSE "fetch"
    IN r.method # "" =>
         /\ tasks[t].handler = expected
         /\ tasks[t].responded <=> (expected # "none")
         /\ tasks[t].pc =
              CASE expected = "none" -> "done"
                [] expected = "handleNavigationRequest" -> "navFetch"
                [] expected = "handleStaticAsset" -> "staticMatch"
                [] expected = "handleRuntimeAsset" -> "runtimeMatch"
                [] expected = "fetch" -> "defaultFetch"

\* '/css/main.css', of the precache list and matching the .css pattern,
\* requested as a subresource while the static store is empty: CacheFirst.
C26_Witness ==
  \E t \in Slots :
    /\ tasks[t].req = Request("GET", "cors", SiteUrl("/css/main.css"))
    /\ shouldCacheRuntime(tasks[t].req)
    /\ tasks[t].handler = "handleStaticAsset"
    /\ EntriesOf(caches, STATIC_CACHE_NAME) = NoEntries

\* C27: a push with a payload shows exactly one notification, with the
\* payload's title and body, its url as data and the actions 'open' and
\* 'close'; a push without data shows nothing; neither touches a store.
C27_PushNotification ==
  worker.push.handled =>
    /\ ~worker.push.storesChanged
    /\ IF worker.push.payload.present
       THEN /\ Len(worker.push.shown) = 1
            /\ worker.push.shown[1].title = worker.push.payload.title
            /\ worker.push.shown[1].body = worker.push.payload.body
            /\ worker.push.shown[1].data = worker.push.payload.url
            /\ worker.push.shown[1].actions = << "open", "close" >>
       ELSE worker.push.shown = << >>

C27_Witness ==
  /\ worker.push.handled
  /\ worker.push.payload = PushPayload(TRUE, "New post", "Read it now", "/blog/post/")
  /\ Len(worker.push.shown) = 1
  /\ worker.push.shown[1] \in worker.displayed
  /\ worker.push.shown[1].data = "/blog/post/"

\* C28: a click opens a window exactly when its action is 'open' or absent,
\* at the url the notification carries ('/' when it carries none); with
\* 'close' the notification is closed and no window is opened.
C28_NotificationClick ==
  worker.click.handled =>
    /\ worker.click.closed
    /\ (worker.click.opened # << >>) <=> (worker.click.action \in {"open", ""})
    /\ worker.click.opened # << >> =>
         worker.click.opened =
           << IF worker.click.data # "" THEN worker.click.data ELSE "/" >>
    /\ worker.click.action = "close" => worker.click.opened = << >>

\* A click on the body of the notification: the window opens at its url.
C28_Witness ==
  /\ worker.click.handled
  /\ worker.click.action = ""
  /\ worker.click.data = "/blog/post/"
  /\ worker.click.opened = << "/blog/post/" >>
  /\ worker.displayed = {}

\* C29: when a static or runtime asset has been answered from the cache and
\* the network fetch started behind it fails, the cached response stays the
\* answer, no store is changed, and no promise is left rejected with nobody
\* to handle it.
C29_RevalidationFailureSwallowed ==
  \A t \in Slots :
    (/\ IsStatic(tasks[t]) \/ IsRuntime(tasks[t])
     /\ tasks[t].detached /\ tasks[t].netError) =>
      /\ tasks[t].outcome = "resolved"
      /\ tasks[t].result = tasks[t].cached
      /\ tasks[t].writes = 0
      /\ ~tasks[t].unhandled

\* C30: the static-asset handler treats a URL the static store does not
\* hold as a miss, and the runtime-asset handler a URL the runtime store
\* does not hold, whatever the other stores hold.
C30_OwnStoreOnly ==
  \A t \in Slots :
    /\ (IsStatic(tasks[t]) /\ tasks[t].lookups = 1) =>
         tasks[t].cached = tasks[t].staticExact
    /\ (IsRuntime(tasks[t]) /\ tasks[t].lookups = 1) =>
         tasks[t].cached = tasks[t].runtimeExact

\* C31: requests for different URLs are independent. No step of a request
\* creates, replaces or removes the entry of a URL other than its own, and
\* what a request for a URL other than '/' is answered from the cached '/'
\* is what caches.match('/') found when the request was dispatched,
\* whatever the requests for other URLs in flight did in between.
C31_Independent ==
  \A t \in Slots :
    /\ tasks[t].touched \subseteq {tasks[t].req.url}
    /\ (tasks[t].req.url # RootUrl /\ tasks[t].lookups = 2) =>
         tasks[t].cached = tasks[t].rootAtStart

\* C31, on a worker whose precache succeeded.
C31_IndependentWhenPrecached ==
  worker.precache = "stored" => C31_Independent

\* C32: entries are never expired one by one. In every step, whatever the
\* event (install, fetch, message, push, notificationclick), a store that
\* is still there afterwards holds every key it held before; and a store
\* goes away, with all its entries, only in the deletions of an activation.
C32_NeverExpired ==
  [][\A i \in 1..Len(caches) :
       IF caches[i].name \in StoreNames(caches')
       THEN (DOMAIN caches[i].entries)
              \subseteq (DOMAIN EntriesOf(caches', caches[i].name))
       ELSE worker.state = "activating" /\ worker.activatePc = "delete"]_vars

\* Activation has deleted a store that held an entry, the runtime store has
\* grown to two entries, and a message, a push and a click have been handled.
C32_Witness ==
  /\ "terminal-static-v0" \in worker.activateChanged
  /\ DOMAIN EntriesOf(caches, RUNTIME_CACHE_NAME)
       = { SiteUrl("/blog/post/"), SiteUrl("/images/photo.png") }
  /\ DOMAIN EntriesOf(caches, STATIC_CACHE_NAME) = PrecacheUrls
  /\ worker.message.handled /\ worker.push.handled /\ worker.click.handled

\* C33: once an activation has completed, the stores of the engine (those
\* named 'terminal-...') are the current static store and the current
\* runtime store, at most one of each, whatever fetch, message, push and
\* click events were handled since; and no store is ever named CACHE_NAME.
C33_OnlyCurrentStores ==
  /\ CACHE_NAME \notin StoreNames(caches)
  /\ worker.state = "activated" =>
       /\ \A i \in 1..Len(caches) :
            StartsWithTerminal(caches[i].name) =>
              caches[i].name \in {STATIC_CACHE_NAME, RUNTIME_CACHE_NAME}
       /\ \A i, j \in 1..Len(caches) : caches[i].name = caches[j].name => i = j

\* Older stores of both roles were there when the worker was registered;
\* after the activation fetch events have created the runtime store and
\* filled it, and a message and a push have been handled.
C33_Witness ==
  /\ worker.state = "activated"
  /\ {"terminal-static-v0", "terminal-runtime-v0"} \subseteq worker.activateChanged
  /\ CacheKeys(caches) = << "analytics-cache", STATIC_CACHE_NAME, RUNTIME_CACHE_NAME >>
  /\ EntriesOf(caches, RUNTIME_CACHE_NAME) # NoEntries
  /\ worker.message.handled /\ worker.push.handled

\* C34: a GET_VERSION message that comes without a reply port is handled
\* without an error and changes nothing: nothing is posted, skipWaiting is
\* not called and no store is changed.
C34_ReplyPortOptional ==
  (/\ worker.message.handled
   /\ worker.message.data = MessageData(TRUE, "GET_VERSION")
   /\ worker.message.ports = 0) =>
     /\ ~worker.message.threw
     /\ worker.message.posted = << >>
     /\ ~worker.message.skipCalled
     /\ ~worker.message.storesChanged

\* C35: a SKIP_WAITING message makes the listener call skipWaiting, in
\* whatever state the worker is (installing, waiting, activating or
\* activated), with or without a port, and does nothing else: it posts no
\* reply, raises no error and changes no store.
C35_SkipWaitingMessage ==
  (worker.message.handled /\ worker.message.data = MessageData(TRUE, "SKIP_WAITING")) =>
    /\ worker.message.skipCalled
    /\ worker.skipWaiting
    /\ worker.message.posted = << >>
    /\ ~worker.message.threw
    /\ ~worker.message.storesChanged

\* The message reaches a worker that waits after an install whose own
\* skipWaiting call was never made.
C35_Witness ==
  /\ worker.state = "installed"
  /\ worker.precache = "failed"
  /\ worker.message.handled
  /\ worker.message.data = MessageData(TRUE, "SKIP_WAITING")
  /\ worker.message.ports = 1
  /\ worker.skipWaiting

\* C36: a GET request whose URL has a scheme other than http and https,
\* whichever scheme, mode and path it has, is left to the browser: the
\* listener returns without respondWith, starts no handler and no fetch,
\* and no store is read or changed for it.
C36_NonHttpNotIntercepted ==
  \A t \in Slots :
    (/\ tasks[t].req.method = "GET"
     /\ tasks[t].req.url.protocol \notin {"http:", "https:"}) =>
       /\ ~tasks[t].responded
       /\ tasks[t].handler = "none"
       /\ tasks[t].pc = "done"
       /\ tasks[t].fetches = 0 /\ tasks[t].lookups = 0
       /\ tasks[t].writes = 0 /\ tasks[t].touched = {}

\* A navigation to '/' of a browser extension, a precached path.
C36_Witness ==
  \E t \in Slots :
    /\ tasks[t].req = Request("GET", "navigate", Url("moz-extension:", "abcdef", "/", ""))
    /\ tasks[t].pc = "done"
    /\ ~tasks[t].responded
    /\ caches = << PrecachedStore >>

\* C37: a navigation whose network fetch failed and whose cache lookup
\* failed too (the storage threw) still resolves, with the offline document.
C37_OfflineFallbackUnconditional ==
  \A t \in Slots :
    (/\ IsNavigation(tasks[t])
     /\ tasks[t].netError /\ tasks[t].storeError
     /\ tasks[t].pc = "done") =>
       /\ tasks[t].outcome = "resolved"
       /\ tasks[t].result = OfflineResponse

\* C38: the handlers of fetch events never write to the static store. No
\* step of a request changes it, and what it holds is what an install
\* wrote: nothing, or one entry per precache URL, all of one deployment.
C38_StaticStoreInstallOnly ==
  /\ \A t \in Slots : ~tasks[t].staticChanged
  /\ \/ EntriesOf(caches, STATIC_CACHE_NAME) = NoEntries
     \/ \E ver \in 0..MaxVer :
          EntriesOf(caches, STATIC_CACHE_NAME)
            = [u \in PrecacheUrls |-> NetworkResponse(u, 200, ver)]

\* After a deployment a request for the precached '/' has put the new copy
\* into the runtime store; the static store still holds the install's.
C38_Witness ==
  \E t \in Slots :
    /\ tasks[t].req.url = RootUrl
    /\ tasks[t].pc = "done" /\ tasks[t].writes > 0
    /\ tasks[t].stored = NetworkResponse(RootUrl, 200, 1)
    /\ EntryIn(caches, STATIC_CACHE_NAME, RootUrl) = NetworkResponse(RootUrl, 200, 0)
    /\ EntryIn(caches, RUNTIME_CACHE_NAME, RootUrl) = NetworkResponse(RootUrl, 200, 1)

\* C39: an offline navigation to a page that the static store holds since
\* the install and the runtime store holds in a newer copy, fetched later,
\* is answered with the newer copy.
C39_OfflineNavigationNewestCopy ==
  \A t \in Slots :
    (/\ IsNavigation(tasks[t])
     /\ tasks[t].netError /\ tasks[t].lookups >= 1 /\ tasks[t].pc = "done"
     /\ tasks[t].staticExact # NoResponse
     /\ tasks[t].runtimeExact # NoResponse
     /\ tasks[t].runtimeExact.ver > tasks[t].staticExact.ver) =>
       /\ tasks[t].outcome = "resolved"
       /\ tasks[t].result = tasks[t].runtimeExact

\* C40: a navigation that the network answers with a status that is not a
\* success is answered with that response as it is: the handler ends there,
\* looks nothing up in the cache, also when a copy of the URL or of '/' is
\* cached, and changes no store.
C40_ErrorStatusPassedThrough ==
  \A t \in Slots :
    (/\ IsNavigation(tasks[t])
     /\ tasks[t].net # NoResponse
     /\ ~(tasks[t].net.status \in 200..299)) =>
       /\ tasks[t].pc = "done"
       /\ tasks[t].outcome = "resolved"
       /\ tasks[t].result = tasks[t].net
       /\ tasks[t].lookups = 0
       /\ tasks[t].writes = 0 /\ tasks[t].touched = {}

\* The network answers 404 for '/', of which the static store holds a copy.
C40_Witness ==
  \E t \in Slots :
    /\ tasks[t].req = Request("GET", "navigate", RootUrl)
    /\ tasks[t].net.status = 404
    /\ tasks[t].result = NetworkResponse(RootUrl, 404, siteVer)
    /\ EntryIn(caches, STATIC_CACHE_NAME, RootUrl) # NoResponse
====
